---- MODULE Spec2Model ----
(***************************************************************************)
(* A model of XPMailer (xp-mailer): the options handling of `initialize`,  *)
(* the write-once property descriptors, and the `send` method with the     *)
(* nodemailer transport as an external collaborator.                       *)
(*                                                                         *)
(* The class modelled is the one with the `noreply` default sender         *)
(* (src/unnamed/part_000); src/lib/index.js is the earlier revision of the *)
(* same class without `noreply`.                                           *)
(*                                                                         *)
(* JavaScript values are modelled as strings: a JavaScript string is the   *)
(* TLA+ string itself, every other value is a token of one of the sets     *)
(* below.  A property that is absent from an object reads as UNDEF.        *)
(***************************************************************************)
EXTENDS Naturals, Sequences, FiniteSets

\* ------------------------------------------------------------------------
\* Bounds of the model
\* ------------------------------------------------------------------------

\* send calls issued on the one Mailer
MaxCalls == 2

\* runs of initialize on the one instance (the construction and re-runs)
MaxInits == 2

\* the places in which an input differs from the plainest valid one
MaxDiffer == 2

\* ------------------------------------------------------------------------
\* JavaScript values
\* ------------------------------------------------------------------------

UNDEF == "<undefined>"
NULL  == "<null>"
FALSE_ == "<false>"
TRUE_  == "<true>"

Numbers  == {"<0>", "<25>", "<7>", "<-1>"}
Booleans == {FALSE_, TRUE_}
Objects  == {"<{}>", "<{user,pass}>", "<{rejectUnauthorized}>", "<mail>", "<payload>"}
Arrays   == {"<[]>", "<[file]>"}
Strings  == {"", "localhost", "smtp.example.com", "client.example.com",
             "noreply@example.com", "x@example.com", "y@example.com",
             "c@example.com", "body", "yes", "587", "other.example.com"}

\* the values !v is true of
Falsy == {UNDEF, NULL, FALSE_, "<0>", ""}

\* a || b
Or(a, b) == IF a \in Falsy THEN b ELSE a

\* Boolean(v), as a JavaScript boolean
ToBoolean(v) == IF v \in Falsy THEN FALSE_ ELSE TRUE_

\* the expandjs type tests the class uses
isVoid(v)    == v \in {UNDEF, NULL}
isDefined(v) == v # UNDEF
isObject(v)  == v \in Objects
isArray(v)   == v \in Arrays
isString(v, notEmpty) == v \in Strings /\ (notEmpty => v # "")
isInt(v, notNegative) == v \in Numbers /\ (notNegative => v # "<-1>")

\* `cond && 'type'`: the type name when cond holds, false otherwise
AndType(cond, type) == IF cond THEN type ELSE FALSE_

\* ------------------------------------------------------------------------
\* The property descriptors: set(val) computes the value to store from the
\* current one and the assigned one, validate(val) names the expected type
\* of a value that must be rejected (false: accepted).
\* ------------------------------------------------------------------------

authSet(this, val)       == Or(this.auth, val)
authValidate(val)        == AndType(~isObject(val), "Object")

hostnameSet(this, val)   == Or(this.hostname, val)
hostnameValidate(val)    == AndType(~isString(val, FALSE), "string")

nameSet(this, val)       == IF isDefined(this.name) THEN this.name ELSE val
nameValidate(val)        == AndType(~isVoid(val) /\ ~isString(val, FALSE), "string")

noreplySet(this, val)    == IF isDefined(this.noreply) THEN this.noreply ELSE val
noreplyValidate(val)     == AndType(~isVoid(val) /\ ~isString(val, FALSE), "string")

portSet(this, val)       == IF isDefined(this.port) THEN this.port ELSE val
portValidate(val)        == AndType(~isVoid(val) /\ ~isInt(val, TRUE), "number")

secureSet(this, val)     == IF isDefined(this.secure) THEN this.secure ELSE ToBoolean(val)

tlsSet(this, val)        == Or(this.tls, val)
tlsValidate(val)         == AndType(~isVoid(val) /\ ~isObject(val), "Object")

\* transport handles are numbered from 1 in the order the factory made them;
\* 0 is the undefined handle
\* (variant: the last handle assigned wins)
transporterSetLast(this, val) == val
transporterSet(this, val)  == IF this.transporter # 0 THEN this.transporter ELSE val
transporterValidate(val)   == AndType(val = 0, "Object")

NoError == [name |-> "none", field |-> "", type |-> ""]
ValidationError(field, type) == [name |-> "ValidationError", field |-> field, type |-> type]

Set(key, this, val) ==
    CASE key = "auth"     -> authSet(this, val)
      [] key = "hostname" -> hostnameSet(this, val)
      [] key = "name"     -> nameSet(this, val)
      [] key = "noreply"  -> noreplySet(this, val)
      [] key = "port"     -> portSet(this, val)
      [] key = "secure"   -> secureSet(this, val)
      [] key = "tls"      -> tlsSet(this, val)

Validate(key, val) ==
    CASE key = "auth"     -> authValidate(val)
      [] key = "hostname" -> hostnameValidate(val)
      [] key = "name"     -> nameValidate(val)
      [] key = "noreply"  -> noreplyValidate(val)
      [] key = "port"     -> portValidate(val)
      [] key = "secure"   -> FALSE_
      [] key = "tls"      -> tlsValidate(val)

\* this[key] = val on a declared property: the value set() returns is
\* validated and stored, or a ValidationError(key, type) is thrown and
\* nothing is stored.
Assign(this, key, val) ==
    LET post == Set(key, this, val)
        type == Validate(key, post)
    IN  IF type # FALSE_
        THEN [this |-> this, thrown |-> ValidationError(key, type)]
        ELSE [this |-> [this EXCEPT ![key] = post], thrown |-> NoError]

\* this.transporter = val
AssignTransporter(this, val) ==
    LET post == transporterSet(this, val)
        type == transporterValidate(post)
    IN  IF type # FALSE_
        THEN [this |-> this, thrown |-> ValidationError("transporter", type)]
        ELSE [this |-> [this EXCEPT !.transporter = post], thrown |-> NoError]

\* ------------------------------------------------------------------------
\* initialize(options)
\* ------------------------------------------------------------------------

OptionKeys == {"auth", "hostname", "name", "noreply", "port", "tls", "secure"}

\* the instance before its constructor ran: no property holds a value
NewInstance ==
    [options |-> [k \in OptionKeys |-> UNDEF],
     auth |-> UNDEF, hostname |-> UNDEF, name |-> UNDEF, noreply |-> UNDEF,
     port |-> UNDEF, tls |-> UNDEF, secure |-> UNDEF, transporter |-> 0]

\* (variant: `tls` defaults to null, as `port` does)
SettingTlsNull(options) ==
    << <<"auth",     options.auth>>,
       <<"hostname", Or(options.hostname, "localhost")>>,
       <<"name",     Or(options.name, NULL)>>,
       <<"noreply",  Or(options.noreply, NULL)>>,
       <<"port",     Or(options.port, NULL)>>,
       <<"tls",      Or(options.tls, NULL)>>,
       <<"secure",   Or(options.secure, FALSE_)>> >>

\* the assignments of the "Setting" block, in order, with their right sides
Setting(options) ==
    << <<"auth",     options.auth>>,
       <<"hostname", Or(options.hostname, "localhost")>>,
       <<"name",     Or(options.name, NULL)>>,
       <<"noreply",  Or(options.noreply, NULL)>>,
       <<"port",     Or(options.port, NULL)>>,
       <<"tls",      Or(options.tls, "<{}>")>>,
       <<"secure",   Or(options.secure, FALSE_)>> >>

\* the assignments one after the other; the first that throws ends the run
RECURSIVE AssignAll(_, _)
AssignAll(this, steps) ==
    IF steps = <<>>
    THEN [this |-> this, thrown |-> NoError]
    ELSE LET r == Assign(this, Head(steps)[1], Head(steps)[2])
         IN  IF r.thrown # NoError THEN r ELSE AssignAll(r.this, Tail(steps))

\* the options object handed to nodemailer.createTransport
TransportOptions(this) ==
    [auth |-> this.auth, host |-> this.hostname, name |-> this.name,
     port |-> this.port, secure |-> this.secure, tls |-> this.tls]

\* initialize(options) on `this`, `made` transports having been created so
\* far: the instance afterwards, the error thrown (NoError: none), and the
\* options of the createTransport calls it made.
initialize(this, options, made) ==
    LET s == AssignAll([this EXCEPT !.options = options], Setting(options))
    IN  IF s.thrown # NoError
        THEN [this |-> s.this, thrown |-> s.thrown, createTransport |-> <<>>]
        ELSE LET t == AssignTransporter(s.this, made + 1)
             IN  [this |-> t.this, thrown |-> t.thrown,
                  createTransport |-> <<TransportOptions(s.this)>>]

\* ------------------------------------------------------------------------
\* send(mail, attachments, callback)
\* ------------------------------------------------------------------------

MailKeys == {"to", "from", "cc", "bcc", "html", "text", "attachments"}

\* An object is its identity (ref) and its properties; what is passed as
\* `mail` need not be an object, and then ref is the value itself.
Object(ref) == [ref |-> ref, to |-> UNDEF, from |-> UNDEF, cc |-> UNDEF, bcc |-> UNDEF,
                html |-> UNDEF, text |-> UNDEF, attachments |-> UNDEF]

\* the own properties of an object
OwnKeys(o) == {k \in MailKeys : o[k] # UNDEF}

\* Object.assign(target, source), keys being source's own properties:
\* target with them copied onto it
ObjectAssign(target, source, keys) ==
    [k \in DOMAIN target |-> IF k \in keys THEN source[k] ELSE target[k]]

\* (variant: the payload is assembled in the caller's object)
PayloadTargetMail(mail) == mail

\* the {} literal the payload is assembled in
PayloadTarget(mail) == Object("<payload>")

\* the "Asserting" block, line by line: the condition under which the line
\* calls back and returns, and the error it calls back with
AssertingLines(this, mail, attachments) ==
    << [fails |-> ~isObject(mail.ref),
        error |-> ValidationError("mail", "Object")],
       [fails |-> ~isString(mail.to, TRUE),
        error |-> ValidationError("mail.to", "string")],
       [fails |-> ~isVoid(mail.from) /\ ~isString(mail.from, TRUE),
        error |-> ValidationError("mail.from", "string")],
       [fails |-> ~isVoid(mail.cc) /\ ~isString(mail.cc, FALSE),
        error |-> ValidationError("mail.cc", "string")],
       [fails |-> ~isVoid(mail.bcc) /\ ~isString(mail.bcc, FALSE),
        error |-> ValidationError("mail.cc", "string")],
       [fails |-> ~isVoid(mail.html) /\ ~isString(mail.html, FALSE),
        error |-> ValidationError("mail.html", "string")],
       [fails |-> ~isVoid(mail.text) /\ ~isString(mail.text, FALSE),
        error |-> ValidationError("mail.text", "string")],
       [fails |-> ~isVoid(attachments) /\ ~isArray(attachments),
        error |-> ValidationError("attachments", "Array")],
       [fails |-> mail.from \in Falsy /\ this.noreply \in Falsy,
        error |-> ValidationError("mail.from", "string")] >>

\* the error of the first line that fails, NoError when none does
RECURSIVE FirstFailure(_)
FirstFailure(lines) ==
    IF lines = <<>> THEN NoError
    ELSE IF Head(lines).fails THEN Head(lines).error
    ELSE FirstFailure(Tail(lines))

\* the lines numbered `order` of a block
Pick(lines, order) == [i \in 1..Len(order) |-> lines[order[i]]]

\* (variant: `attachments` is not checked)
AssertingWithoutAttachments(this, mail, attachments) ==
    FirstFailure(Pick(AssertingLines(this, mail, attachments), <<1, 2, 3, 4, 5, 6, 7, 9>>))

\* (variant: the absent `from` is checked with the present one, before the
\* optional fields)
AssertingFromFirst(this, mail, attachments) ==
    FirstFailure(Pick(AssertingLines(this, mail, attachments), <<1, 2, 3, 9, 4, 5, 6, 7, 8>>))

\* the "Asserting" block: what send calls back with before it returns early
Asserting(this, mail, attachments) == FirstFailure(AssertingLines(this, mail, attachments))

\* (variant: the default sender wins over the message's own `from`)
PreparingNoreplyFirst(this, mail) == [mail EXCEPT !.from = Or(this.noreply, mail.from)]

\* the "Preparing" block: mail.from = mail.from || this.noreply
Preparing(this, mail) == [mail EXCEPT !.from = Or(mail.from, this.noreply)]

\* (variant: `attachments` is not merged into the payload)
SendingWithoutAttachments(this, mail, attachments, callback) ==
    [transporter |-> this.transporter,
     mail |-> ObjectAssign(PayloadTarget(mail), mail, OwnKeys(mail)),
     callback |-> callback]

\* the "Sending" block: the arguments of this.transporter.sendMail
Sending(this, mail, attachments, callback) ==
    [transporter |-> this.transporter,
     mail |-> ObjectAssign(ObjectAssign(PayloadTarget(mail), mail, OwnKeys(mail)),
                           [attachments |-> attachments], {"attachments"}),
     callback |-> callback]

\* (variant: a failed check calls back and does not return)
sendNoReturn(this, mail, attachments, callback) ==
    LET error == Asserting(this, mail, attachments)
        prepared == Preparing(this, mail)
        call == Sending(this, prepared, attachments, callback)
    IN  [callback |-> IF error # NoError THEN <<error>> ELSE <<>>,
         mail |-> IF call.mail.ref = prepared.ref THEN call.mail ELSE prepared,
         sendMail |-> <<call>>, this |-> this]

\* send on `this`: the errors `callback` is invoked with by send itself,
\* the caller's mail object afterwards, the sendMail calls made, and the
\* instance afterwards. A callback is identified by the call it was given to.
send(this, mail, attachments, callback) ==
    LET error == Asserting(this, mail, attachments)
    IN  IF error # NoError
        THEN [callback |-> <<error>>, mail |-> mail, sendMail |-> <<>>, this |-> this]
        ELSE LET prepared == Preparing(this, mail)
                 call == Sending(this, prepared, attachments, callback)
             IN  [callback |-> <<>>,
                  mail |-> IF call.mail.ref = prepared.ref THEN call.mail ELSE prepared,
                  sendMail |-> <<call>>, this |-> this]

\* ------------------------------------------------------------------------
\* The transport (nodemailer), an external collaborator: it invokes the
\* callback it was given once, with an error or with a result.
\* ------------------------------------------------------------------------

TransportError == [error |-> "<Error: connect ECONNREFUSED>", result |-> UNDEF]
TransportInfo  == [error |-> NULL, result |-> "<{messageId}>"]
Outcomes == {TransportError, TransportInfo}

\* how a caller's callback reads (error, result)
Kind(error) == IF error \in Falsy THEN "result" ELSE "error"

\* ------------------------------------------------------------------------
\* Inputs
\* ------------------------------------------------------------------------

Options(auth, hostname, name, noreply, port, tls, secure) ==
    [auth |-> auth, hostname |-> hostname, name |-> name, noreply |-> noreply,
     port |-> port, tls |-> tls, secure |-> secure]

Auth == "<{user,pass}>"

\* configuration records for the runs that exercise send
SendOptions ==
    { Options(Auth, UNDEF, UNDEF, n, UNDEF, UNDEF, UNDEF) : n \in {UNDEF, "noreply@example.com"} }

\* the properties in which the object o differs from the object base
Differing(o, base) == {k \in DOMAIN base : o[k] # base[k]}

\* the record that gives `auth` and omits everything else
OnlyAuth == Options(Auth, UNDEF, UNDEF, UNDEF, UNDEF, UNDEF, UNDEF)

\* configuration records for the runs that exercise initialize: every
\* property omitted, well typed, wrong typed and falsy, or wrong typed and
\* truthy; the records that differ from OnlyAuth in at most MaxDiffer properties
ConfigOptions ==
    { o \in [auth     : {UNDEF, Auth, "<0>", "<25>"},
             hostname : {UNDEF, "smtp.example.com", "", "<0>", "<25>"},
             name     : {UNDEF, "client.example.com", "<0>", "<25>"},
             noreply  : {UNDEF, "noreply@example.com", "<0>", "<25>"},
             port     : {UNDEF, "<25>", "", "587"},
             tls      : {UNDEF, "<{rejectUnauthorized}>", "<0>", "<25>"},
             secure   : {UNDEF, TRUE_, "yes"}] :
        Cardinality(Differing(o, OnlyAuth)) <= MaxDiffer }

\* configuration records for the runs of initialize on a constructed instance
AgainOptions ==
    { OnlyAuth,
      Options("<{}>", "other.example.com", "other.example.com", "other.example.com",
              "<7>", "<{}>", TRUE_),
      Options(UNDEF, "<7>", "<7>", "<7>", "587", "<7>", "yes") }

Mail(to, from, cc, bcc, html, text) ==
    [Object("<mail>") EXCEPT !.to = to, !.from = from, !.cc = cc, !.bcc = bcc,
                             !.html = html, !.text = text]

\* the mail with a recipient and a sender and nothing else
Plain == Mail("x@example.com", "y@example.com", UNDEF, UNDEF, UNDEF, UNDEF)

\* what callers pass to send: as `mail` a value that is no object, or an
\* object with every property absent, well typed or wrong typed; as
\* `attachments` nothing, an array or a value that is no array. Of the
\* objects, those that differ from Plain sent without attachments in at most
\* MaxDiffer places.
Sends ==
    { <<Object(v), UNDEF>> : v \in {UNDEF, "<7>"} } \cup
    { s \in { Mail(to, from, cc, bcc, html, text) :
                to \in {UNDEF, "", "x@example.com"},
                from \in {UNDEF, NULL, "", "y@example.com"},
                cc \in {UNDEF, "c@example.com", "<7>"},
                bcc \in {UNDEF, "c@example.com", "<7>"},
                html \in {UNDEF, "<7>"},
                text \in {UNDEF, "body", "<7>"} } \X {UNDEF, "<[file]>", "<7>"} :
        Cardinality(Differing(s[1], Plain)) + (IF s[2] = UNDEF THEN 0 ELSE 1) <= MaxDiffer }

\* a few mails for the runs that exercise initialize and the transport
FewSends ==
    { <<Object(UNDEF), UNDEF>>,
      <<Plain, "<[file]>">>,
      <<Mail("x@example.com", UNDEF, UNDEF, UNDEF, UNDEF, "body"), UNDEF>> }

\* ------------------------------------------------------------------------
\* State
\* ------------------------------------------------------------------------

VARIABLES
    mstate,      \* "new" (not constructed), "ready", "failed" (the constructor threw)
    this,        \* the instance's properties
    transports,  \* the options of the createTransport calls, in order
    thrown,      \* what the last initialize or assignment threw (NoError: nothing)
    calls,       \* per send call: the kinds of its callback's invocations, its sendMail calls
    wire,        \* the sendMail calls the transport has not answered yet
    last         \* the last operation; of a send or a callback, its arguments and what it did

vars == <<mstate, this, transports, thrown, calls, wire, last>>

Nothing ==
    [op |-> "none", call |-> 0, mail |-> Object(UNDEF), attachments |-> UNDEF,
     after |-> Object(UNDEF), noreply |-> UNDEF, callback |-> <<>>, sendMail |-> <<>>,
     error |-> UNDEF, result |-> UNDEF]

Init ==
    /\ mstate = "new"
    /\ this = NewInstance
    /\ transports = <<>>
    /\ thrown = NoError
    /\ calls = <<>>
    /\ wire = {}
    /\ last = Nothing

\* initialize(options) runs on the instance
Initialize(O) ==
    /\ Len(transports) < MaxInits
    /\ \E options \in O :
         LET r == initialize(this, options, Len(transports))
         IN  /\ this' = r.this
             /\ thrown' = r.thrown
             /\ transports' = transports \o r.createTransport
             /\ mstate' = IF r.thrown = NoError THEN "ready"
                          ELSE IF mstate = "new" THEN "failed" ELSE mstate
    /\ last' = [Nothing EXCEPT !.op = "initialize"]
    /\ UNCHANGED <<calls, wire>>

\* new XPMailer(options): the constructor runs initialize
Construct(O) == mstate = "new" /\ Initialize(O)

\* mailer.initialize(options) by a holder of the instance
Reinitialize(O) == mstate = "ready" /\ Initialize(O)

\* mailer[key] = val by a holder of the instance
Assignment(K, V) ==
    /\ mstate = "ready"
    /\ \E key \in K, val \in V :
         LET r == Assign(this, key, val)
         IN  /\ this' = r.this
             /\ thrown' = r.thrown
    /\ last' = [Nothing EXCEPT !.op = "assign"]
    /\ UNCHANGED <<mstate, transports, calls, wire>>

\* mailer.send(mail, attachments, callback)
Send(S) ==
    /\ mstate = "ready"
    /\ Len(calls) < MaxCalls
    /\ \E s \in S :
         LET mail == s[1]
             attachments == s[2]
             id == Len(calls) + 1
             r  == send(this, mail, attachments, id)
         IN  /\ this' = r.this
             /\ calls' = Append(calls, [cbs  |-> [i \in 1..Len(r.callback) |-> "error"],
                                        sent |-> Len(r.sendMail)])
             /\ wire' = wire \cup {[transporter |-> r.sendMail[i].transporter,
                                    callback |-> r.sendMail[i].callback] : i \in 1..Len(r.sendMail)}
             /\ last' = [Nothing EXCEPT !.op = "send", !.call = id, !.mail = mail,
                                        !.attachments = attachments, !.after = r.mail,
                                        !.noreply = this.noreply,
                                        !.callback = r.callback, !.sendMail = r.sendMail]
    /\ UNCHANGED <<mstate, transports, thrown>>

\* the transport answers the sendMail call c
Answer(c) ==
    /\ c \in wire
    /\ \E outcome \in Outcomes :
         /\ calls' = IF c.callback \in 1..Len(calls)
                     THEN [calls EXCEPT ![c.callback].cbs = Append(@, Kind(outcome.error))]
                     ELSE calls
         /\ last' = [Nothing EXCEPT !.op = "callback", !.call = c.callback,
                                    !.error = outcome.error, !.result = outcome.result]
    /\ wire' = wire \ {c}
    /\ UNCHANGED <<mstate, this, transports, thrown>>

Deliver == \E c \in wire : Answer(c)

AssignKeys == {"auth", "hostname", "name", "noreply", "port", "secure", "tls"}
AssignValues == {UNDEF, "other.example.com", "<7>", "<{}>"}

\* runs that exercise send
Next ==
    \/ Construct(SendOptions)
    \/ Send(Sends)
    \/ Deliver

Spec == Init /\ [][Next]_vars

\* runs that exercise initialize and the property descriptors
ConfigNext ==
    \/ Construct(ConfigOptions)
    \/ Reinitialize(AgainOptions)
    \/ Assignment(AssignKeys, AssignValues)
    \/ Send(FewSends)
    \/ Deliver

ConfigSpec == Init /\ [][ConfigNext]_vars

\* runs in which the transport answers every sendMail call
LiveNext ==
    \/ Construct(SendOptions)
    \/ Send(Sends)
    \/ Deliver

LiveSpec ==
    /\ Init
    /\ [][LiveNext]_vars
    /\ \A id \in 1..MaxCalls : WF_vars(\E c \in wire : c.callback = id /\ Answer(c))

\* ------------------------------------------------------------------------
\* What the properties speak of
\* ------------------------------------------------------------------------

NonEmptyStrings == Strings \ {""}
Void == {UNDEF, NULL}

\* a default sender is configured
HasDefaultSender(noreply) == noreply \in NonEmptyStrings

\* the faults of an input to send, by the field each is about
Faults(mail, attachments, noreply) ==
    IF mail.ref # "<mail>" THEN {"mail"}
    ELSE {f \in {"mail.to"} : mail.to \notin NonEmptyStrings}
         \cup {f \in {"mail.from"} : \/ mail.from \notin Void \cup NonEmptyStrings
                                     \/ mail.from \in Void /\ ~HasDefaultSender(noreply)}
         \cup {f \in {"mail.cc"} : mail.cc \notin Void \cup Strings}
         \cup {f \in {"mail.bcc"} : mail.bcc \notin Void \cup Strings}
         \cup {f \in {"mail.html"} : mail.html \notin Void \cup Strings}
         \cup {f \in {"mail.text"} : mail.text \notin Void \cup Strings}
         \cup {f \in {"attachments"} : attachments \notin Void \cup Arrays}

\* the type each field is expected to have
ExpectedType(field) ==
    CASE field = "mail" -> "Object"
      [] field = "attachments" -> "Array"
      [] OTHER -> "string"

\* the send that `last` describes
SendDone == last.op = "send"
LastFaults == Faults(last.mail, last.attachments, last.noreply)
LastPasses == SendDone /\ LastFaults = {}
LastFails  == SendDone /\ LastFaults # {}

\* ------------------------------------------------------------------------
\* C1
\* ------------------------------------------------------------------------

\* C1: a send whose input fails a validation check has called back once, with
\* a ValidationError, and no sendMail call was made for it: none is recorded
\* for the call and none of the calls awaiting the transport's answer is its.
C1_InvalidNeverSent ==
    LastFails =>
        /\ Len(last.callback) = 1
        /\ last.callback[1].name = "ValidationError"
        /\ last.sendMail = <<>>
        /\ calls[last.call].sent = 0
        /\ calls[last.call].cbs = <<"error">>
        /\ \A c \in wire : c.callback # last.call

\* a second send, with a non-array `attachments` as its only fault, failed
\* while the first send awaits the transport
C1_Witness ==
    /\ LastFails
    /\ last.call = 2
    /\ LastFaults = {"attachments"}
    /\ last.callback = <<ValidationError("attachments", "Array")>>
    /\ \E c \in wire : c.callback = 1

\* ------------------------------------------------------------------------
\* C2
\* ------------------------------------------------------------------------

\* C2: the callback of every send call is invoked at most once at any time,
\* and eventually once: with an error or with a result, whatever the order
\* in which calls are issued and answered.
C2_ExactlyOnce ==
    /\ [](\A id \in 1..Len(calls) : Len(calls[id].cbs) <= 1)
    /\ \A id \in 1..MaxCalls :
         [](Len(calls) >= id => <>(Len(calls) >= id /\ Len(calls[id].cbs) = 1))

\* the second call was answered, with an error of the transport, while the
\* first still awaits its answer
C2_Witness ==
    /\ Len(calls) >= 2
    /\ calls[2].sent = 1 /\ calls[2].cbs = <<"error">>
    /\ calls[1].sent = 1 /\ calls[1].cbs = <<>>
    /\ \E c \in wire : c.callback = 1

\* ------------------------------------------------------------------------
\* C3
\* ------------------------------------------------------------------------

\* the input has no fault other than, possibly, one about `from`
OtherwiseValid == SendDone /\ LastFaults \subseteq {"mail.from"}

\* C3: an otherwise valid message without `from` fails with a
\* ValidationError naming mail.from and reaches no transport when no default
\* sender is configured, and is forwarded with `from` the default sender
\* when one is; a message with its own non-empty `from` is forwarded with
\* that `from` in both cases.
C3_DefaultSender ==
    OtherwiseValid =>
        /\ (last.mail.from \in Void /\ ~HasDefaultSender(last.noreply)) =>
              /\ last.callback = <<ValidationError("mail.from", "string")>>
              /\ last.sendMail = <<>>
        /\ (last.mail.from \in Void /\ HasDefaultSender(last.noreply)) =>
              /\ last.callback = <<>>
              /\ Len(last.sendMail) = 1
              /\ last.sendMail[1].mail.from = last.noreply
        /\ last.mail.from \in NonEmptyStrings =>
              /\ last.callback = <<>>
              /\ Len(last.sendMail) = 1
              /\ last.sendMail[1].mail.from = last.mail.from

\* a message without `from` was forwarded with the default sender
C3_Witness ==
    /\ OtherwiseValid
    /\ last.mail.from = UNDEF
    /\ last.noreply = "noreply@example.com"
    /\ Len(last.sendMail) = 1
    /\ last.sendMail[1].mail.from = "noreply@example.com"

\* ------------------------------------------------------------------------
\* C4
\* ------------------------------------------------------------------------

\* the fields a group of checks reports
GroupFields(g) ==
    CASE g = "mail" -> {"mail"}
      [] g = "to" -> {"mail.to"}
      [] g \in {"from", "from present", "from absent"} -> {"mail.from"}
      [] g = "optional" -> {"mail.cc", "mail.bcc", "mail.html", "mail.text"}
      [] g = "attachments" -> {"attachments"}

\* whether the input violates the checks of a group
Violates(g, mail, attachments, noreply) ==
    LET f == Faults(mail, attachments, noreply)
    IN  CASE g = "from present" -> "mail.from" \in f /\ mail.from \notin Void
          [] g = "from absent"  -> "mail.from" \in f /\ mail.from \in Void
          [] OTHER -> (GroupFields(g) \cap f) # {}

\* the first group of an order that the input violates ("none": no group)
RECURSIVE FirstViolated(_, _, _, _)
FirstViolated(order, mail, attachments, noreply) ==
    IF order = <<>> THEN "none"
    ELSE IF Violates(Head(order), mail, attachments, noreply) THEN Head(order)
    ELSE FirstViolated(Tail(order), mail, attachments, noreply)

\* the error of the last send is one of the first group violated in `order`;
\* the optional fields' errors are told apart by group, so that which of
\* them an error names (C5) plays no part
ReportsFirstOf(order) ==
    LastFails =>
        /\ Len(last.callback) = 1
        /\ LET g == FirstViolated(order, last.mail, last.attachments, last.noreply)
               field == last.callback[1].field
           IN  g # "none" /\ field \in GroupFields(g)

StatedOrder == <<"mail", "to", "from", "optional", "attachments">>
CodeOrder   == <<"mail", "to", "from present", "optional", "attachments", "from absent">>

\* C4 as stated: the error is that of the earliest violated check in the order
\* mail, to, from, optional fields, attachments.
C4_StatedOrder == ReportsFirstOf(StatedOrder)

\* C4 as amended: the error is that of the earliest violated check in the
\* order mail, to, a `from` that is present but no non-empty string, the
\* optional fields, attachments, and last a `from` that is absent with no
\* default sender configured.
C4_CodeOrder == ReportsFirstOf(CodeOrder)

\* a message with no `from`, no default sender and a non-string cc was
\* reported as a cc error
C4_Witness ==
    /\ LastFails
    /\ last.mail.from = UNDEF /\ ~HasDefaultSender(last.noreply)
    /\ last.mail.cc = "<7>"
    /\ last.mail.to = "x@example.com"
    /\ last.callback = <<ValidationError("mail.cc", "string")>>

\* ------------------------------------------------------------------------
\* C5
\* ------------------------------------------------------------------------

\* C5: a send that fails validation on exactly one field calls back with the
\* ValidationError naming that field and its expected type.
C5_NamesTheField ==
    (LastFails /\ Cardinality(LastFaults) = 1) =>
        \A f \in LastFaults : last.callback = <<ValidationError(f, ExpectedType(f))>>

\* ------------------------------------------------------------------------
\* C6
\* ------------------------------------------------------------------------

\* the properties of a configuration record that are missing though
\* required, or supplied with a value of the wrong type
WrongFields(o) ==
    {k \in {"auth"} : o.auth \notin Objects}
    \cup {k \in {"hostname", "name", "noreply"} : o[k] \notin {UNDEF} \cup Strings}
    \cup {k \in {"port"} : o.port \notin {UNDEF} \cup (Numbers \ {"<-1>"})}
    \cup {k \in {"tls"} : o.tls \notin {UNDEF} \cup Objects}

OptionType(k) ==
    CASE k \in {"auth", "tls"} -> "Object"
      [] k = "port" -> "number"
      [] OTHER -> "string"

\* the constructor has run and initialize has not run again: this.options
\* is the record the instance was constructed from
Constructed == mstate \in {"ready", "failed"} /\ Len(transports) <= 1

\* C6: construction from a record with a missing `auth` or a wrong-typed
\* property, falsy wrong-typed values included, fails with a ValidationError
\* naming an offending property and its expected type, and creates no
\* transport.
C6_RejectsWrongTypes ==
    (Constructed /\ WrongFields(this.options) # {}) =>
        /\ mstate = "failed"
        /\ thrown.name = "ValidationError"
        /\ thrown.field \in WrongFields(this.options)
        /\ thrown.type = OptionType(thrown.field)
        /\ transports = <<>>

\* ------------------------------------------------------------------------
\* C7
\* ------------------------------------------------------------------------

\* C7: once constructed, hostname is a non-empty string, secure a boolean and
\* tls an object, and they are what every createTransport call was given as
\* host, secure and tls; a record that omits hostname, secure or tls yields
\* "localhost", false and {}, one that omits name, port or noreply yields
\* null.
C7_Normalized ==
    mstate = "ready" =>
        /\ this.hostname \in NonEmptyStrings
        /\ this.secure \in Booleans
        /\ this.tls \in Objects
        /\ Len(transports) >= 1
        /\ \A i \in 1..Len(transports) :
              /\ transports[i].host = this.hostname
              /\ transports[i].secure = this.secure
              /\ transports[i].tls = this.tls
        /\ Constructed =>
              /\ this.options.hostname = UNDEF => this.hostname = "localhost"
              /\ this.options.secure = UNDEF => this.secure = FALSE_
              /\ this.options.tls = UNDEF => this.tls = "<{}>"
              /\ this.options.name = UNDEF => this.name = NULL
              /\ this.options.port = UNDEF => this.port = NULL
              /\ this.options.noreply = UNDEF => this.noreply = NULL

\* an instance constructed from {auth} alone
C7_Witness ==
    /\ mstate = "ready"
    /\ Constructed
    /\ this.options = OnlyAuth
    /\ this.hostname = "localhost" /\ this.secure = FALSE_ /\ this.tls = "<{}>"
    /\ transports = <<[auth |-> Auth, host |-> "localhost", name |-> NULL,
                       port |-> NULL, secure |-> FALSE_, tls |-> "<{}>"]>>

\* ------------------------------------------------------------------------
\* C8
\* ------------------------------------------------------------------------

\* C8: a property that holds a defined value keeps it through every step,
\* no assignment and no further run of initialize on the constructed
\* instance throws, and every sendMail call is made on the first handle.
C8_WriteOnce ==
    [][ /\ \A k \in AssignKeys : isDefined(this[k]) => this'[k] = this[k]
        /\ this.transporter # 0 => this'.transporter = this.transporter
        /\ mstate = "ready" => thrown' = NoError /\ mstate' = "ready"
        /\ \A c \in wire' : c.transporter = 1 ]_vars

\* initialize ran again with another hostname, the first is in effect, and
\* a send made afterwards went to the first handle
C8_Witness ==
    /\ Len(transports) = 2
    /\ this.options.hostname = "other.example.com"
    /\ this.hostname = "smtp.example.com"
    /\ this.transporter = 1
    /\ last.op = "send"
    /\ Len(last.sendMail) = 1 /\ last.sendMail[1].transporter = 1

\* ------------------------------------------------------------------------
\* C9
\* ------------------------------------------------------------------------

\* C9: a send that passes validation makes one sendMail call, on the
\* instance's handle, with the caller's callback and a payload holding every
\* field of the message and `attachments`; the callback has then been
\* invoked only by the transport's answer, once, with what was answered.
C9_ForwardedOnce ==
    /\ LastPasses =>
          /\ last.callback = <<>>
          /\ Len(last.sendMail) = 1
          /\ calls[last.call].sent = 1
          /\ last.sendMail[1].transporter = this.transporter
          /\ last.sendMail[1].callback = last.call
          /\ \A k \in MailKeys \ {"attachments"} :
                last.sendMail[1].mail[k] = last.after[k]
          /\ \A k \in MailKeys \ {"attachments", "from"} :
                last.sendMail[1].mail[k] = last.mail[k]
          /\ last.sendMail[1].mail.attachments = last.attachments
    /\ last.op = "callback" =>
          /\ calls[last.call].sent = 1
          /\ calls[last.call].cbs = <<Kind(last.error)>>

\* a message with cc and attachments was forwarded
C9_Witness ==
    /\ LastPasses
    /\ last.mail.cc = "c@example.com"
    /\ last.attachments = "<[file]>"
    /\ Len(last.sendMail) = 1
    /\ last.sendMail[1].mail.cc = "c@example.com"
    /\ last.sendMail[1].mail.attachments = "<[file]>"

\* ------------------------------------------------------------------------
\* C10
\* ------------------------------------------------------------------------

\* C10: a send leaves the instance's properties and its handle alone; the
\* caller's mail object is afterwards as before, but for `from`, set to the
\* default sender, when the send passed validation and the message had no
\* `from`; the payload is an object other than the caller's.
C10_Frame ==
    [][ Len(calls') > Len(calls) =>
          /\ this' = this
          /\ transports' = transports
          /\ LET l == last'
                 passes == Faults(l.mail, l.attachments, this.noreply) = {}
             IN  /\ l.op = "send"
                 /\ l.after = IF passes /\ l.mail.from \in Void
                              THEN [l.mail EXCEPT !.from = this.noreply]
                              ELSE l.mail
                 /\ \A i \in 1..Len(l.sendMail) : l.sendMail[i].mail.ref # l.mail.ref ]_vars

\* a message with `from` null and attachments was sent: `from` became the
\* default sender and the object gained no `attachments`
C10_Witness ==
    /\ LastPasses
    /\ last.mail.from = NULL
    /\ last.attachments = "<[file]>"
    /\ last.after = [last.mail EXCEPT !.from = "noreply@example.com"]
    /\ last.sendMail[1].mail.ref = "<payload>"

====
